---- MODULE Spec2Model ----
(***************************************************************************)
(* geodatasets: the catalog tree (Bunch / Dataset), name resolution,       *)
(* filtering, and the fetch facade (get_url, get_path, fetch) over the     *)
(* pooch cache.                                                            *)
(*                                                                         *)
(* A Python str is a sequence of one-character strings.  A dict is the     *)
(* sequence of its [key, value] entries in insertion order.  A value of a  *)
(* Dataset is tagged with its Python type: [t |-> "str" | "list" | "int"]. *)
(* A call is one step; the caller takes the result in the next step.       *)
(***************************************************************************)
EXTENDS Integers, Sequences, FiniteSets, TLC

VARIABLES data, registry, urls, cache, unzipped, pc, op, arg, ret, log

vars == <<data, registry, urls, cache, unzipped, pc, op, arg, ret, log>>

(***************************************************************************)
(* Bounds                                                                  *)
(***************************************************************************)
MaxLen == 1
MaxBatch == 2

(***************************************************************************)
(* str                                                                     *)
(***************************************************************************)
LowerLetters ==
    <<"a", "b", "c", "d", "e", "f", "g", "h", "i", "j", "k", "l", "m",
      "n", "o", "p", "q", "r", "s", "t", "u", "v", "w", "x", "y", "z">>

UpperLetters ==
    <<"A", "B", "C", "D", "E", "F", "G", "H", "I", "J", "K", "L", "M",
      "N", "O", "P", "Q", "R", "S", "T", "U", "V", "W", "X", "Y", "Z">>

LowerChar(c) ==
    IF \E i \in 1..Len(UpperLetters) : UpperLetters[i] = c
    THEN LowerLetters[CHOOSE i \in 1..Len(UpperLetters) : UpperLetters[i] = c]
    ELSE c

UpperChar(c) ==
    IF \E i \in 1..Len(LowerLetters) : LowerLetters[i] = c
    THEN UpperLetters[CHOOSE i \in 1..Len(LowerLetters) : LowerLetters[i] = c]
    ELSE c

Lower(s) == [i \in 1..Len(s) |-> LowerChar(s[i])]

Upper(s) == [i \in 1..Len(s) |-> UpperChar(s[i])]

\* sub in s
Contains(s, sub) ==
    \E i \in 0..(Len(s) - Len(sub)) :
        \A j \in 1..Len(sub) : s[i + j] = sub[j]

EndsWith(s, suffix) ==
    /\ Len(suffix) <= Len(s)
    /\ \A j \in 1..Len(suffix) : s[Len(s) - Len(suffix) + j] = suffix[j]

\* str.maketrans({x: "" for x in "., -_/"}): the characters mapped to ""
QUERY_NAME_TRANSLATION_NoSlash == {".", ",", " ", "-", "_"}

QUERY_NAME_TRANSLATION == {".", ",", " ", "-", "_", "/"}

RECURSIVE Translate(_, _)
Translate(s, table) ==
    IF s = <<>> THEN <<>>
    ELSE (IF Head(s) \in table THEN <<>> ELSE <<Head(s)>>)
         \o Translate(Tail(s), table)

(***************************************************************************)
(* dict: insertion-ordered entries; assignment to an existing key keeps    *)
(* the key's position and replaces the value                               *)
(***************************************************************************)
HasKey(d, k) == \E i \in 1..Len(d) : d[i].key = k

Get(d, k) == d[CHOOSE i \in 1..Len(d) : d[i].key = k].value

\* a key the mapping holds keeps the value it has
Put_KeepFirst(d, k, v) ==
    IF HasKey(d, k) THEN d ELSE Append(d, [key |-> k, value |-> v])

\* d[k] = v
Put(d, k, v) ==
    IF HasKey(d, k)
    THEN [i \in 1..Len(d) |-> IF d[i].key = k THEN [key |-> k, value |-> v]
                                              ELSE d[i]]
    ELSE Append(d, [key |-> k, value |-> v])

Values(d) == [i \in 1..Len(d) |-> d[i].value]

(***************************************************************************)
(* Dataset and Bunch objects.  id is the identity of a Dataset object.     *)
(***************************************************************************)
StrV(s) == [t |-> "str", v |-> s]

ListV(l) == [t |-> "list", v |-> l]

IntV(n) == [t |-> "int", v |-> n]

IsDataset(item) == item.kind = "Dataset"

MkDataset(i, a) == [kind |-> "Dataset", id |-> i, attrs |-> a, items |-> <<>>]

MkBunch(d) == [kind |-> "Bunch", id |-> 0, attrs |-> <<>>, items |-> d]

E(k, v) == [key |-> k, value |-> v]

\* Bunch.__getattr__ on a Dataset: the value stored under the key
Attr(ds, k) == ds.attrs[k].v

HasAttr(ds, k) == k \in DOMAIN ds.attrs

(***************************************************************************)
(* Bunch.flatten                                                           *)
(***************************************************************************)
RECURSIVE _get_items(_, _), _get_items_values(_, _)
_get_items(flat, item) ==
    IF IsDataset(item)
    THEN Put(flat, Attr(item, "name"), item)
    ELSE _get_items_values(flat, Values(item.items))

_get_items_values(flat, provs) ==
    IF provs = <<>> THEN flat
    ELSE _get_items_values(_get_items(flat, Head(provs)), Tail(provs))

flatten(self) == _get_items(<<>>, self)

(***************************************************************************)
(* Bunch.query_name                                                        *)
(***************************************************************************)
Return(v) == [kind |-> "return", val |-> v]

Raise(exc, msg) == [kind |-> "raise", val |-> [exc |-> exc, msg |-> msg]]

Returned(r) == r.kind = "return"

Raised(r) == r.kind = "raise"

\* f"No matching item found for the query '{name}'."
NotFoundPrefix == <<"No matching item found for the query '">>

NotFoundSuffix == <<"'.">>

NotFoundMessage_Clean(name) ==
    NotFoundPrefix
    \o Lower(Translate(name, QUERY_NAME_TRANSLATION)) \o NotFoundSuffix

NotFoundMessage(name) == NotFoundPrefix \o name \o NotFoundSuffix

\* {k.translate(QUERY_NAME_TRANSLATION).lower(): v for k, v in flat.items()}
RECURSIVE xyz_flat_lower_FirstWins(_, _)
xyz_flat_lower_FirstWins(acc, flat) ==
    IF flat = <<>> THEN acc
    ELSE LET k == Lower(Translate(Head(flat).key, QUERY_NAME_TRANSLATION))
         IN  xyz_flat_lower_FirstWins(
                 IF HasKey(acc, k) THEN acc ELSE Put(acc, k, Head(flat).value),
                 Tail(flat))

RECURSIVE xyz_flat_lower(_, _)
xyz_flat_lower(acc, flat) ==
    IF flat = <<>> THEN acc
    ELSE xyz_flat_lower(
             Put(acc, Lower(Translate(Head(flat).key, QUERY_NAME_TRANSLATION)),
                 Head(flat).value),
             Tail(flat))

name_clean(name) == Lower(Translate(name, QUERY_NAME_TRANSLATION))

query_name(self, name) ==
    LET index == xyz_flat_lower(<<>>, flatten(self))
    IN  IF HasKey(index, name_clean(name))
        THEN Return(Get(index, name_clean(name)))
        ELSE Raise("ValueError", NotFoundMessage(name))

(***************************************************************************)
(* Catalog definitions: the Datasets and the trees the model loads         *)
(***************************************************************************)
FileX == <<"x", ".", "z", "i", "p">>

FileY == <<"y", ".", "z", "i", "p">>

FileZ == <<"z", ".", "c", "s", "v">>

Point == <<"P", "o", "i", "n", "t">>

Polygon == <<"P", "o", "l", "y", "g", "o", "n">>

MembersShp ==
    << <<"a", ".", "d", "b", "f">>, <<"a", ".", "s", "h", "p">>,
       <<"a", ".", "s", "h", "x">> >>

MembersNoShp == << <<"c", ".", "c", "s", "v">>, <<"c", ".", "t", "x", "t">> >>

MembersOne == << <<"d", ".", "c", "s", "v">> >>

Required(name, url, hash, filename) ==
    [k \in {"name", "url", "hash", "filename"} |->
        CASE k = "name" -> StrV(name)
          [] k = "url" -> StrV(url)
          [] k = "hash" -> StrV(hash)
          [] k = "filename" -> StrV(filename)]

\* name a.b; archive of a shapefile
D1 ==
    MkDataset(1,
        Required(<<"a", ".", "b">>, <<"u", "1">>, <<"h", "1">>, FileX)
        @@ [k \in {"geometry_type", "members", "nrows"} |->
               CASE k = "geometry_type" -> StrV(Point)
                 [] k = "members" -> ListV(MembersShp)
                 [] k = "nrows" -> IntV(5)])

\* name A_b, the same letters as a.b; archive without a shapefile
D2 ==
    MkDataset(2,
        Required(<<"A", "_", "b">>, <<"u", "2">>, <<"h", "2">>, FileY)
        @@ [k \in {"geometry_type", "members"} |->
               CASE k = "geometry_type" -> StrV(Polygon)
                 [] k = "members" -> ListV(MembersNoShp)])

\* name b; plain file, no optional attribute but nrows
D3 ==
    MkDataset(3,
        Required(<<"b">>, <<"u", "3">>, <<"h", "3">>, FileZ)
        @@ [k \in {"nrows"} |-> IntV(200)])

\* name a.b again, and the filename of D1
D4 ==
    MkDataset(4,
        Required(<<"a", ".", "b">>, <<"u", "4">>, <<"h", "4">>, FileX)
        @@ [k \in {"geometry_type"} |-> StrV(Polygon)])

\* name B; archive of one member
D5 ==
    MkDataset(5,
        Required(<<"B">>, <<"u", "5">>, <<"h", "5">>, FileY)
        @@ [k \in {"geometry_type", "members"} |->
               CASE k = "geometry_type" -> StrV(Point)
                 [] k = "members" -> ListV(MembersOne)])

Datasets == {D1, D2, D3, D4, D5}

\* {"g": {"x": r, "y": s}}
Tree1(r, s) == MkBunch(<<E("g", MkBunch(<<E("x", r), E("y", s)>>))>>)

\* {"x": r, "g": {"y": s}}
Tree2(r, s) == MkBunch(<<E("x", r), E("g", MkBunch(<<E("y", s)>>))>>)

\* {"g": {"h": {"x": r}, "y": s}, "e": {}}
Tree3(r, s) ==
    MkBunch(<<E("g", MkBunch(<<E("h", MkBunch(<<E("x", r)>>)), E("y", s)>>)),
              E("e", MkBunch(<<>>))>>)

\* {"g": {"h": {"x": r}}, "k": {"h": {"y": s}}}
Tree4(r, s) ==
    MkBunch(<<E("g", MkBunch(<<E("h", MkBunch(<<E("x", r)>>))>>)),
              E("k", MkBunch(<<E("h", MkBunch(<<E("y", s)>>))>>))>>)

\* every leaf of a tree is an object of its own
Catalogs ==
    UNION {{Tree1(p[1], p[2]), Tree2(p[1], p[2]),
            Tree3(p[1], p[2]), Tree4(p[1], p[2])} :
              p \in {q \in Datasets \X Datasets : q[1] # q[2]}}

Filenames == {Attr(d, "filename") : d \in Datasets}

(***************************************************************************)
(* Inputs                                                                  *)
(***************************************************************************)
Alphabet == {"a", "A", "b", ".", ",", " ", "-", "_", "/"}

RECURSIVE StringsOfLen(_)
StringsOfLen(n) ==
    IF n = 0 THEN {<<>>}
    ELSE {Append(s, c) : s \in StringsOfLen(n - 1), c \in Alphabet}

BoundedStrings == UNION {StringsOfLen(n) : n \in 0..MaxLen}

NamedQueries ==
    {Attr(d, "name") : d \in Datasets}
    \cup { <<"a", "_", "B">>, <<"A", " ", "b">>, <<"a", "-", "b", "/">>,
           <<"a", ",", "b">>, <<"a", "/", "b">>, <<"A", "B">>,
           <<"B", "-">>, <<"/", "b">>, <<"b", ".", "a">>,
           <<"a", ".", "b", "b">> }

Queries == BoundedStrings \cup NamedQueries

(***************************************************************************)
(* State after import: data = _load_json(...); api.py builds registry and  *)
(* urls from data.flatten(); the cache directory holds any files           *)
(***************************************************************************)
None == [kind |-> "none", val |-> <<>>]

\* {value["name"]: value[field] for value in flat.values()}
RECURSIVE ByFilename_ByName(_, _, _)
ByFilename_ByName(acc, values, field) ==
    IF values = <<>> THEN acc
    ELSE ByFilename_ByName(Put(acc, Attr(Head(values), "name"),
                               Attr(Head(values), field)),
                           Tail(values), field)

\* {value["filename"]: value[field] for value in flat.values()}
RECURSIVE ByFilename(_, _, _)
ByFilename(acc, values, field) ==
    IF values = <<>> THEN acc
    ELSE ByFilename(Put(acc, Attr(Head(values), "filename"),
                        Attr(Head(values), field)),
                    Tail(values), field)

Absent == <<"absent">>

Corrupt == <<"corrupt">>

InitCommon ==
    /\ data \in Catalogs
    /\ registry = ByFilename(<<>>, Values(flatten(data)), "hash")
    /\ urls = ByFilename(<<>>, Values(flatten(data)), "url")
    /\ unzipped = {}
    /\ pc = "idle"
    /\ op = "none"
    /\ arg = <<>>
    /\ ret = None
    /\ log = <<>>

\* the caller takes the result of the call; the next call can start
TakeResult ==
    /\ pc = "called"
    /\ pc' = "idle"
    /\ op' = "none"
    /\ arg' = <<>>
    /\ ret' = None
    /\ log' = <<>>
    /\ UNCHANGED <<data, registry, urls, cache, unzipped>>

(***************************************************************************)
(* Name resolution: data.query_name(name) and get_url(name)                *)
(***************************************************************************)
QueryName(Q) ==
    /\ pc = "idle"
    /\ \E name \in Q :
        /\ op' = "query_name"
        /\ arg' = name
        /\ ret' = query_name(data, name)
        /\ log' = <<>>
    /\ pc' = "called"
    /\ UNCHANGED <<data, registry, urls, cache, unzipped>>

get_url(name) ==
    LET r == query_name(data, name)
    IN  IF Raised(r) THEN r ELSE Return(Attr(r.val, "url"))

GetUrl(Q) ==
    /\ pc = "idle"
    /\ \E name \in Q :
        /\ op' = "get_url"
        /\ arg' = name
        /\ ret' = get_url(name)
        /\ log' = <<>>
    /\ pc' = "called"
    /\ UNCHANGED <<data, registry, urls, cache, unzipped>>

InitName ==
    /\ InitCommon
    /\ cache = [f \in Filenames |-> Absent]

NextName == QueryName(Queries) \/ GetUrl(Queries) \/ TakeResult

SpecName == InitName /\ [][NextName]_vars

(***************************************************************************)
(* CACHE = pooch.create(path, base_url="", registry, urls).  A file of the *)
(* cache directory is Absent or holds content with some hash.  net is what *)
(* a download of each file yields during the call.                         *)
(***************************************************************************)
CacheDir == <<"~/.cache/geodatasets/">>

FullPath(fname) == CacheDir \o fname

UnzipSuffix == <<".unzip/">>

ShpSuffix == <<".", "s", "h", "p">>

PyNone == <<"None">>

Resolve(name) == [ev |-> "resolve", what |-> name, url |-> <<>>, hash |-> <<>>]

Download(fname, url, hash) ==
    [ev |-> "download", what |-> fname, url |-> url, hash |-> hash]

Extract(fname) == [ev |-> "extract", what |-> fname, url |-> <<>>, hash |-> <<>>]

\* a call ends at its first failed download: at most one file fails in a call
Nets ==
    {[f \in Filenames |-> "ok"]}
    \cup {[f \in Filenames |-> IF f = bad THEN how ELSE "ok"] :
             bad \in {registry[i].key : i \in 1..Len(registry)},
             how \in {"mismatch", "unreachable"}}

\* pooch.Pooch.fetch(fname): [ret, cache, log, action]
cache_fetch(c, fname, net) ==
    IF ~HasKey(registry, fname)
    THEN [ret |-> Raise("ValueError", <<"not in registry">>), cache |-> c,
          log |-> <<>>, action |-> "none"]
    ELSE LET known_hash == Get(registry, fname)
             action == IF c[fname] = Absent THEN "download"
                       ELSE IF c[fname] # known_hash THEN "update"
                       ELSE "fetch"
             attempt == <<Download(fname, Get(urls, fname), known_hash)>>
         IN  IF action = "fetch"
             THEN [ret |-> Return(FullPath(fname)), cache |-> c,
                   log |-> <<>>, action |-> action]
             ELSE IF net[fname] = "ok"
             THEN [ret |-> Return(FullPath(fname)),
                   cache |-> [c EXCEPT ![fname] = known_hash],
                   log |-> attempt, action |-> action]
             ELSE IF net[fname] = "mismatch"
             THEN [ret |-> Raise("ValueError", <<"hash mismatch">>),
                   cache |-> c, log |-> attempt, action |-> action]
             ELSE [ret |-> Raise("ConnectionError", <<"unreachable">>),
                   cache |-> c, log |-> attempt, action |-> action]

get_path_ByRecordName(c, name, net) ==
    LET r == query_name(data, name)
    IN  IF Raised(r)
        THEN [ret |-> r, cache |-> c, log |-> <<Resolve(name)>>]
        ELSE LET f == cache_fetch(c, Attr(r.val, "name"), net)
             IN  [ret |-> f.ret, cache |-> f.cache,
                  log |-> <<Resolve(name)>> \o f.log]

\* get_path(name): CACHE.fetch(data.query_name(name).filename)
get_path(c, name, net) ==
    LET r == query_name(data, name)
    IN  IF Raised(r)
        THEN [ret |-> r, cache |-> c, log |-> <<Resolve(name)>>]
        ELSE LET f == cache_fetch(c, Attr(r.val, "filename"), net)
             IN  [ret |-> f.ret, cache |-> f.cache,
                  log |-> <<Resolve(name)>> \o f.log]

GetPath(Q) ==
    /\ pc = "idle"
    /\ \E name \in Q, net \in Nets :
        LET r == get_path(cache, name, net)
        IN  /\ op' = "get_path"
            /\ arg' = name
            /\ ret' = r.ret
            /\ cache' = r.cache
            /\ log' = r.log
    /\ pc' = "called"
    /\ UNCHANGED <<data, registry, urls, unzipped>>

RECURSIVE fetch_loop_Continue(_, _, _, _)
fetch_loop_Continue(c, names, net, lg) ==
    IF names = <<>> THEN [ret |-> Return(PyNone), cache |-> c, log |-> lg]
    ELSE LET r == get_path(c, Head(names), net)
             rest == fetch_loop_Continue(r.cache, Tail(names), net,
                                         lg \o r.log)
         IN  IF Raised(r.ret)
             THEN [ret |-> r.ret, cache |-> rest.cache, log |-> rest.log]
             ELSE rest

\* for n in name: _ = CACHE.fetch(data.query_name(n).filename)
RECURSIVE fetch_loop(_, _, _, _)
fetch_loop(c, names, net, lg) ==
    IF names = <<>> THEN [ret |-> Return(PyNone), cache |-> c, log |-> lg]
    ELSE LET r == get_path(c, Head(names), net)
         IN  IF Raised(r.ret)
             THEN [ret |-> r.ret, cache |-> r.cache, log |-> lg \o r.log]
             ELSE fetch_loop(r.cache, Tail(names), net, lg \o r.log)

\* fetch(name): name is a str or a list of str
fetch(c, name, net) ==
    fetch_loop(c, IF name.t = "str" THEN <<name.v>> ELSE name.v, net, <<>>)

RECURSIVE ListsOfLen(_, _)
ListsOfLen(Q, n) ==
    IF n = 0 THEN {<<>>}
    ELSE {Append(l, q) : l \in ListsOfLen(Q, n - 1), q \in Q}

FetchCall(name, net) ==
    LET r == fetch(cache, name, net)
    IN  /\ op' = "fetch"
        /\ arg' = name
        /\ ret' = r.ret
        /\ cache' = r.cache
        /\ log' = r.log

Fetch(Q) ==
    /\ pc = "idle"
    /\ \E net \in Nets :
        \/ \E q \in Q : FetchCall(StrV(q), net)
        \/ \E l \in UNION {ListsOfLen(Q, n) : n \in 0..MaxBatch} :
              FetchCall(ListV(l), net)
    /\ pc' = "called"
    /\ UNCHANGED <<data, registry, urls, unzipped>>

(***************************************************************************)
(* Dataset.path                                                            *)
(***************************************************************************)
RECURSIVE Leaves(_)
Leaves(item) ==
    IF IsDataset(item) THEN {item}
    ELSE UNION {Leaves(item.items[i].value) : i \in 1..Len(item.items)}

\* pooch.Unzip(members): the extracted files, in the order the walk yields
unzipped_files(fname, members, order) ==
    [i \in 1..Len(members) |->
        FullPath(fname) \o UnzipSuffix \o members[order[i]]]

\* [f for f in unzipped_files if f.endswith(".shp")]
ShpFiles(files) == SelectSeq(files, LAMBDA f : EndsWith(f, ShpSuffix))

dataset_path(self, c, uz, net, order) ==
    LET fname == Attr(self, "filename")
        f == cache_fetch(c, fname, net)
    IN  IF ~HasAttr(self, "members")
        THEN [ret |-> f.ret, cache |-> f.cache, log |-> f.log, unzipped |-> uz]
        ELSE IF Raised(f.ret)
        THEN [ret |-> f.ret, cache |-> f.cache, log |-> f.log, unzipped |-> uz]
        ELSE LET files == unzipped_files(fname, Attr(self, "members"), order)
                 extract == IF f.action \in {"update", "download"}
                               \/ fname \notin uz
                            THEN <<Extract(fname)>> ELSE <<>>
                 result ==
                     IF Len(files) = 1 THEN Return(files[1])
                     ELSE IF Len(files) > 1
                     THEN IF ShpFiles(files) # <<>>
                          THEN Return(ShpFiles(files)[1])
                          ELSE Raise("IndexError", <<"list index out of range">>)
                     ELSE Raise("RuntimeError", <<"No active exception">>)
             IN  [ret |-> result, cache |-> f.cache,
                  log |-> f.log \o extract, unzipped |-> uz \cup {fname}]

DatasetPath ==
    /\ pc = "idle"
    /\ \E self \in Leaves(data), net \in Nets :
        \E order \in Permutations(IF HasAttr(self, "members")
                                  THEN 1..Len(Attr(self, "members"))
                                  ELSE {}) :
            LET r == dataset_path(self, cache, unzipped, net, order)
            IN  /\ op' = "path"
                /\ arg' = self
                /\ ret' = r.ret
                /\ cache' = r.cache
                /\ unzipped' = r.unzipped
                /\ log' = r.log
    /\ pc' = "called"
    /\ UNCHANGED <<data, registry, urls>>

\* os.remove(in_cache): a file of the cache directory is deleted
RemoveCached ==
    /\ pc = "idle"
    /\ \E f \in Filenames :
        /\ cache[f] # Absent
        /\ cache' = [cache EXCEPT ![f] = Absent]
    /\ UNCHANGED <<data, registry, urls, unzipped, pc, op, arg, ret, log>>

FacadeQueries ==
    { <<"a", ".", "b">>, <<"A", " ", "b">>, <<"B", "_">>, <<"b", ".", "a">> }

\* the catalog of the facade is a loaded one: it has one level of groups
FacadeCatalogs ==
    {Tree1(p[1], p[2]) : p \in {q \in Datasets \X Datasets : q[1] # q[2]}}
    \cup {Tree2(p[1], p[2]) :
             p \in {q \in {D1} \X Datasets : q[1] # q[2]}}

\* the cache directory outlives the process: a file of the registry may be
\* there already, with the registered content or with other content
Init ==
    /\ InitCommon
    /\ data \in FacadeCatalogs
    /\ cache \in [Filenames -> {Absent, Corrupt}
                               \cup {Attr(d, "hash") : d \in Datasets}]
    /\ \A f \in Filenames :
          IF HasKey(registry, f)
          THEN cache[f] \in {Absent, Corrupt, Get(registry, f)}
          ELSE cache[f] = Absent

Next ==
    \/ QueryName(FacadeQueries)
    \/ GetUrl(FacadeQueries)
    \/ GetPath(FacadeQueries)
    \/ Fetch(FacadeQueries)
    \/ DatasetPath
    \/ RemoveCached
    \/ TakeResult

Spec == Init /\ [][Next]_vars

(***************************************************************************)
(* Bunch.filter.  keyword, name and geometry_type are a str or PyNone;     *)
(* function is the name of a callable, or "None".                          *)
(***************************************************************************)
\* the str values of the Dataset that contain keyword, case ignored
KeywordValues(dataset, keyword) ==
    {k \in DOMAIN dataset.attrs :
        /\ dataset.attrs[k].t = "str"
        /\ Contains(Lower(dataset.attrs[k].v), Lower(keyword))}

\* _validate: Return(all(cond)), or the AttributeError of Bunch.__getattr__
_validate(dataset, keyword, name, geometry_type) ==
    LET keyword_match == KeywordValues(dataset, keyword) # {}
        name_match == Contains(Lower(Attr(dataset, "name")), Lower(name))
        geom_type_match ==
            Upper(Attr(dataset, "geometry_type"))
                = Upper(Translate(geometry_type, QUERY_NAME_TRANSLATION))
    IN  IF geometry_type # PyNone /\ ~HasAttr(dataset, "geometry_type")
        THEN Raise("AttributeError", <<"geometry_type">>)
        ELSE Return(/\ keyword # PyNone => keyword_match
                    /\ name # PyNone => name_match
                    /\ geometry_type # PyNone => geom_type_match)

\* the docstring's example: hasattr(dataset, "nrows") and dataset.nrows < 100
small_data(dataset) == HasAttr(dataset, "nrows") /\ Attr(dataset, "nrows") < 100

\* lambda dataset: "members" in dataset
has_members(dataset) == HasAttr(dataset, "members")

Apply(function, dataset) ==
    IF function = "small_data" THEN small_data(dataset)
    ELSE has_members(dataset)

\* the loop of _filter_bunch over the entries left, without pruning
RECURSIVE _filter_items_KeepEmpty(_, _, _, _, _, _)
_filter_items_KeepEmpty(new, entries, keyword, name, geometry_type, function) ==
    IF entries = <<>> THEN Return(MkBunch(new))
    ELSE LET key == Head(entries).key
             value == Head(entries).value
             valid == IF function = "None"
                      THEN _validate(value, keyword, name, geometry_type)
                      ELSE Return(Apply(function, value))
             filtered == _filter_items_KeepEmpty(<<>>, value.items, keyword,
                                                 name, geometry_type, function)
         IN  IF IsDataset(value)
             THEN IF Raised(valid) THEN valid
                  ELSE _filter_items_KeepEmpty(
                           IF valid.val THEN Put(new, key, value) ELSE new,
                           Tail(entries), keyword, name, geometry_type,
                           function)
             ELSE IF Raised(filtered) THEN filtered
                  ELSE _filter_items_KeepEmpty(
                           Put(new, key, filtered.val),
                           Tail(entries), keyword, name, geometry_type,
                           function)

\* the loop of _filter_bunch over the entries left; new is the Bunch so far
RECURSIVE _filter_items(_, _, _, _, _, _)
_filter_items(new, entries, keyword, name, geometry_type, function) ==
    IF entries = <<>> THEN Return(MkBunch(new))
    ELSE LET key == Head(entries).key
             value == Head(entries).value
             valid == IF function = "None"
                      THEN _validate(value, keyword, name, geometry_type)
                      ELSE Return(Apply(function, value))
             filtered == _filter_items(<<>>, value.items, keyword, name,
                                       geometry_type, function)
         IN  IF IsDataset(value)
             THEN IF Raised(valid) THEN valid
                  ELSE _filter_items(
                           IF valid.val THEN Put(new, key, value) ELSE new,
                           Tail(entries), keyword, name, geometry_type,
                           function)
             ELSE IF Raised(filtered) THEN filtered
                  ELSE _filter_items(
                           IF filtered.val.items # <<>>
                           THEN Put(new, key, filtered.val) ELSE new,
                           Tail(entries), keyword, name, geometry_type,
                           function)

_filter_bunch(bunch, keyword, name, geometry_type, function) ==
    _filter_items(<<>>, bunch.items, keyword, name, geometry_type, function)

Keywords == {PyNone, <<"z", "i", "p">>, <<"C", "S", "V">>, <<"P", "o">>}

NameParts == {PyNone, <<"B">>, <<"a", ".">>}

GeometryTypes ==
    {PyNone, <<"P", "o", "i", "n", "t">>,
     <<"p", "o", "l", "y", "-", "g", "o", "n">>, <<"M", "i", "x", "e", "d">>}

Functions == {"None", "small_data", "has_members"}

Flatten ==
    /\ pc = "idle"
    /\ op' = "flatten"
    /\ arg' = <<>>
    /\ ret' = Return(flatten(data))
    /\ log' = <<>>
    /\ pc' = "called"
    /\ UNCHANGED <<data, registry, urls, cache, unzipped>>

Filter ==
    /\ pc = "idle"
    /\ \E keyword \in Keywords, name \in NameParts,
          geometry_type \in GeometryTypes, function \in Functions :
        /\ op' = "filter"
        /\ arg' = [keyword |-> keyword, name |-> name,
                   geometry_type |-> geometry_type, function |-> function]
        /\ ret' = _filter_bunch(data, keyword, name, geometry_type, function)
        /\ log' = <<>>
    /\ pc' = "called"
    /\ UNCHANGED <<data, registry, urls, cache, unzipped>>

InitFilter ==
    /\ InitCommon
    /\ cache = [f \in Filenames |-> Absent]

NextFilter == Flatten \/ Filter \/ TakeResult

SpecFilter == InitFilter /\ [][NextFilter]_vars

(***************************************************************************)
(* Dataset.__init__, Dataset.__call__, Dataset.copy.  A mapping handed to  *)
(* Dataset() is a sequence of entries; a value that is itself a mapping is *)
(* tagged [t |-> "dict", v |-> its entries].                               *)
(***************************************************************************)
DictV(d) == [t |-> "dict", v |-> d]

required == <<"name", "url", "hash", "filename">>

\* the character U+0060, which a string of this notation cannot hold
Backtick == "GRAVE ACCENT"

\* sep.join(strs), a message being a sequence of pieces
RECURSIVE Join(_, _)
Join(sep, strs) ==
    IF strs = <<>> THEN <<>>
    ELSE IF Len(strs) = 1 THEN strs
    ELSE <<Head(strs)>> \o sep \o Join(sep, Tail(strs))

MissingPrefix ==
    <<"The attributes ['name', 'url', 'hash', 'filename'] are required to initialise a ",
      Backtick, "Dataset", Backtick, ". Please provide values for: ", Backtick>>

MissingMessage(missing) ==
    MissingPrefix \o Join(<<Backtick, ", ", Backtick>>, missing) \o <<Backtick>>

Keys(d) == {d[i].key : i \in 1..Len(d)}

\* the loop over required stops at the first missing element
missing_FirstOnly(keys) ==
    LET all == SelectSeq(required, LAMBDA el : el \notin keys)
    IN  IF all = <<>> THEN <<>> ELSE <<Head(all)>>

\* for el in required: if el not in self.keys(): missing.append(el)
missing(keys) == SelectSeq(required, LAMBDA el : el \notin keys)

\* Dataset(mapping): the new object i, or the AttributeError
dataset_init(i, d) ==
    IF Len(missing(Keys(d))) > 0
    THEN Raise("AttributeError", MissingMessage(missing(Keys(d))))
    ELSE Return(MkDataset(i, [k \in Keys(d) |-> Get(d, k)]))

\* the entries of a Dataset, for Dataset(self)
KeyOrder ==
    <<"name", "url", "hash", "filename", "geometry_type", "members", "nrows">>

Entries(attrs, keys) ==
    LET ks == SelectSeq(KeyOrder, LAMBDA k : k \in keys)
    IN  [i \in 1..Len(ks) |-> E(ks[i], attrs[ks[i]])]

RECURSIVE MaxOf(_)
MaxOf(S) ==
    IF S = {} THEN 0
    ELSE LET x == CHOOSE y \in S : TRUE
             m == MaxOf(S \ {x})
         IN  IF x > m THEN x ELSE m

\* the identity of an object created now
FreshId == 1 + MaxOf({r.id : r \in Leaves(data)})

NewDataset ==
    /\ pc = "idle"
    /\ \E d \in Datasets :
        \E keys \in SUBSET DOMAIN d.attrs :
            /\ op' = "Dataset"
            /\ arg' = Entries(d.attrs, keys)
            /\ ret' = dataset_init(FreshId, Entries(d.attrs, keys))
            /\ log' = <<>>
    /\ pc' = "called"
    /\ UNCHANGED <<data, registry, urls, cache, unzipped>>

\* dict.setdefault for each keyword: a key the mapping holds keeps its value
update_SetDefault(attrs, kwargs) ==
    [k \in DOMAIN attrs \cup Keys(kwargs) |->
        IF k \in DOMAIN attrs THEN attrs[k] ELSE Get(kwargs, k)]

\* dict.update(kwargs)
update(attrs, kwargs) ==
    [k \in DOMAIN attrs \cup Keys(kwargs) |->
        IF HasKey(kwargs, k) THEN Get(kwargs, k) ELSE attrs[k]]

\* new = self; new.update(kwargs): the receiver itself is updated
dataset_call_InPlace(self, kwargs, i) ==
    LET new == [self EXCEPT !.attrs = update(self.attrs, kwargs)]
    IN  [ret |-> Return(new), self |-> new]

\* Dataset.__call__: new = Dataset(self); new.update(kwargs); return new.
\* The result holds the returned object and the receiver after the call.
dataset_call(self, kwargs, i) ==
    LET new == dataset_init(i, Entries(self.attrs, DOMAIN self.attrs))
    IN  IF Raised(new) THEN [ret |-> new, self |-> self]
        ELSE [ret |-> Return([new.val EXCEPT
                                 !.attrs = update(new.val.attrs, kwargs)]),
              self |-> self]

\* Dataset.copy: new = Dataset(self); return new.  The keywords are not used.
dataset_copy(self, kwargs, i) ==
    [ret |-> dataset_init(i, Entries(self.attrs, DOMAIN self.attrs)),
     self |-> self]

\* the tree with the object of new's identity in the state new
RECURSIVE WithObject(_, _)
WithObject(item, new) ==
    IF IsDataset(item)
    THEN IF item.id = new.id THEN new ELSE item
    ELSE [item EXCEPT !.items =
             [k \in 1..Len(item.items) |->
                 E(item.items[k].key, WithObject(item.items[k].value, new))]]

\* the keyword arguments of the calls
Kwargs ==
    {<<>>,
     <<E("url", StrV(<<"v">>))>>,
     <<E("nrows", IntV(7))>>,
     <<E("hash", StrV(<<"k">>)), E("nrows", IntV(7))>>}

DatasetCall ==
    /\ pc = "idle"
    /\ \E self \in Leaves(data), kwargs \in Kwargs :
        LET r == dataset_call(self, kwargs, FreshId)
        IN  /\ op' = "__call__"
            /\ arg' = [self |-> self, kwargs |-> kwargs]
            /\ ret' = r.ret
            /\ data' = WithObject(data, r.self)
            /\ log' = <<>>
    /\ pc' = "called"
    /\ UNCHANGED <<registry, urls, cache, unzipped>>

DatasetCopy ==
    /\ pc = "idle"
    /\ \E self \in Leaves(data), kwargs \in Kwargs :
        LET r == dataset_copy(self, kwargs, FreshId)
        IN  /\ op' = "copy"
            /\ arg' = [self |-> self, kwargs |-> kwargs]
            /\ ret' = r.ret
            /\ data' = WithObject(data, r.self)
            /\ log' = <<>>
    /\ pc' = "called"
    /\ UNCHANGED <<registry, urls, cache, unzipped>>

(***************************************************************************)
(* _load_json.  The parsed definition is a mapping of named entries; the   *)
(* conversion of a value to a Dataset is dict(value) followed by the check *)
(* of the required keys.                                                   *)
(***************************************************************************)
Digits == <<"0", "1", "2", "3", "4", "5", "6", "7", "8", "9">>

\* str(n) of a one-digit number
Str(n) == Digits[n + 1]

ElementLengthMessage(k, n) ==
    <<"dictionary update sequence element #", Str(k), " has length ", Str(n),
      "; 2 is required">>

\* the first element of a sequence of strings that is no key-value pair
FirstNoPair(l) ==
    LET bad == {k \in 1..Len(l) : Len(l[k]) # 2}
    IN  IF bad = {} THEN 0 ELSE CHOOSE k \in bad : \A j \in bad : k <= j

\* dict(str) and dict(list of str): each element has to be a pair
pairs_init(i, l) ==
    IF FirstNoPair(l) # 0
    THEN Raise("ValueError",
               ElementLengthMessage(FirstNoPair(l) - 1, Len(l[FirstNoPair(l)])))
    ELSE Raise("AttributeError", MissingMessage(required))

\* Dataset(x) for a value x of the parsed definition
dataset_of(i, x) ==
    CASE x.t = "dict" -> dataset_init(i, x.v)
      [] x.t = "str" -> pairs_init(i, [k \in 1..Len(x.v) |-> <<x.v[k]>>])
      [] x.t = "list" -> pairs_init(i, x.v)
      [] x.t = "int" -> Raise("TypeError", <<"'int' object is not iterable">>)

\* Bunch({i: Dataset(item[i]) for i in item}), objects numbered from i
RECURSIVE load_group(_, _, _)
load_group(item, acc, i) ==
    IF Len(acc) = Len(item) THEN Return(MkBunch(acc))
    ELSE LET e == item[Len(acc) + 1]
             r == dataset_of(i + Len(acc), e.value)
         IN  IF Raised(r) THEN r
             ELSE load_group(item, Append(acc, E(e.key, r.val)), i)

\* the entry is a Dataset whatever it holds besides "url"
load_entry_ByName(item, i) ==
    IF ~HasKey(item.v, "name")
    THEN load_group(item.v, <<>>, i)
    ELSE dataset_init(i, item.v)

\* if "url" in item.keys(): Dataset(item) else: the Bunch of its children
load_entry(item, i) ==
    IF HasKey(item.v, "url")
    THEN dataset_init(i, item.v)
    ELSE load_group(item.v, <<>>, i)

\* for item_name in data.keys(): items[item_name] = ...
RECURSIVE load_items(_, _, _)
load_items(doc, acc, i) ==
    IF Len(acc) = Len(doc) THEN Return(MkBunch(acc))
    ELSE LET e == doc[Len(acc) + 1]
             r == load_entry(e.value, i)
             n == IF HasKey(e.value.v, "url") THEN 1 ELSE Len(e.value.v)
         IN  IF Raised(r) THEN r
             ELSE load_items(doc, Append(acc, E(e.key, r.val)), i + n)

_load_json(doc, i) == load_items(doc, <<>>, i)

\* the definition that describes a tree; the leaf with identity drop[1] is
\* written without the keys drop[2]
RECURSIVE DocOf(_, _)
DocOf(item, drop) ==
    IF IsDataset(item)
    THEN DictV(Entries(item.attrs,
                       IF item.id = drop[1]
                       THEN DOMAIN item.attrs \ drop[2]
                       ELSE DOMAIN item.attrs))
    ELSE DictV([k \in 1..Len(item.items) |->
                   E(item.items[k].key, DocOf(item.items[k].value, drop))])

Definitions ==
    {DocOf(t, <<d.id, keys>>).v :
        t \in Catalogs, d \in Datasets, keys \in SUBSET {"name", "url", "hash", "filename"}}

LoadJson ==
    /\ pc = "idle"
    /\ \E doc \in Definitions :
        /\ op' = "_load_json"
        /\ arg' = doc
        /\ ret' = _load_json(doc, FreshId)
        /\ log' = <<>>
    /\ pc' = "called"
    /\ UNCHANGED <<data, registry, urls, cache, unzipped>>

NextRecord ==
    NewDataset \/ LoadJson \/ DatasetCall \/ DatasetCopy \/ TakeResult

\* Datasets are made, copied and loaded beside a catalog
SpecRecord == InitFilter /\ [][NextRecord]_vars

\* every operation on the loaded catalog, in any order
NextAll == Next \/ Flatten \/ Filter \/ DatasetCall \/ DatasetCopy

SpecAll == Init /\ [][NextAll]_vars

(***************************************************************************)
(* Name resolution claims                                                  *)
(***************************************************************************)
Separators == {".", ",", "-", "_", "/", " "}

IsLetterOrDigit(c) == c \notin Separators

\* the string without the separator characters, letters in lower case
Fold(s) == Lower(SelectSeq(s, IsLetterOrDigit))

SameUpToFormatting(q1, q2) == Fold(q1) = Fold(q2)

CalledNameOp == pc = "called" /\ op \in {"query_name", "get_url"}

\* positions of the flattened catalog whose name is the query / folds like it
NamedAt(flat, name) == {i \in 1..Len(flat) : flat[i].key = name}

FoldsLike(flat, name) ==
    {i \in 1..Len(flat) : SameUpToFormatting(flat[i].key, name)}

Last(S) == CHOOSE i \in S : \A j \in S : j <= i

\* C1 as stated: for every Record r of the flattened catalog,
\* query_name(r.name) returns r itself.
C1_RoundTripExact ==
    (pc = "called" /\ op = "query_name") =>
        \A i \in NamedAt(flatten(data), arg) :
            ret = Return(flatten(data)[i].value)

\* C1 amended: for every Record r of the flattened catalog, query_name(r.name)
\* returns the Record that comes last in flatten() order among those whose
\* normalized name equals r's; it is r itself when no other flattened Record
\* has the same normalized name.
C1_RoundTripLastMatch ==
    (pc = "called" /\ op = "query_name") =>
        LET flat == flatten(data)
        IN  \A i \in NamedAt(flat, arg) :
                /\ ret = Return(flat[Last(FoldsLike(flat, arg))].value)
                /\ FoldsLike(flat, arg) = {i} => ret = Return(flat[i].value)

\* query_name(r.name) was called for the first of two flattened Records
\* whose names normalize alike
C1_Witness ==
    /\ pc = "called" /\ op = "query_name"
    /\ LET flat == flatten(data)
       IN  /\ NamedAt(flat, arg) = {1}
           /\ FoldsLike(flat, arg) = {1, 2}
           /\ Returned(ret)

C1_WitnessAlone ==
    /\ pc = "called" /\ op = "query_name"
    /\ LET flat == flatten(data)
       IN  /\ NamedAt(flat, arg) = {2}
           /\ FoldsLike(flat, arg) = {2}
           /\ Returned(ret) /\ ret.val.id = flat[2].value.id

NameCall(o, name) ==
    IF o = "get_url" THEN get_url(name) ELSE query_name(data, name)

SameOutcome(r1, r2) ==
    \/ Returned(r1) /\ Returned(r2) /\ r1.val = r2.val
    \/ Raised(r1) /\ Raised(r2) /\ r1.val.exc = r2.val.exc

\* C2: two queries that differ only in letter case and in occurrences of
\* . , - _ / and space give the same outcome on the same catalog: the same
\* Record (the same url for get_url), or both the not-found error.
C2_FormatInsensitive ==
    CalledNameOp =>
        \A q \in Queries :
            SameUpToFormatting(arg, q) => SameOutcome(ret, NameCall(op, q))

\* a query written with an upper-case letter and a separator found a Record
C2_Witness ==
    /\ CalledNameOp
    /\ Returned(ret)
    /\ \E i \in 1..Len(arg) : arg[i] \in Separators
    /\ \E i \in 1..Len(arg) : arg[i] \in {"A", "B"}
    /\ \E q \in Queries : q # arg /\ SameUpToFormatting(arg, q)

(***************************************************************************)
(* Fetch facade claims                                                     *)
(***************************************************************************)
NoMatch(q) == FoldsLike(flatten(data), q) = {}

\* the Record a matching query stands for
Resolved(q) == flatten(data)[Last(FoldsLike(flatten(data), q))].value

FileOf(q) == Attr(Resolved(q), "filename")

\* a not-found error whose message quotes q as the caller wrote it
IsNotFoundFor(r, q) ==
    /\ Raised(r)
    /\ r.val.exc = "ValueError"
    /\ \E i \in 1..Len(r.val.msg) :
          /\ SubSeq(r.val.msg, 1, i) = NotFoundPrefix
          /\ SubSeq(r.val.msg, i + 1, i + Len(q)) = q
          /\ SubSeq(r.val.msg, i + Len(q) + 1, Len(r.val.msg)) = NotFoundSuffix

IsDownloadError(r) ==
    Raised(r) /\ r.val.msg \in {<<"hash mismatch">>, <<"unreachable">>}

FetchNames == IF arg.t = "str" THEN <<arg.v>> ELSE arg.v

FirstNoMatch(names) ==
    CHOOSE i \in 1..Len(names) :
        NoMatch(names[i]) /\ \A j \in 1..(i - 1) : ~NoMatch(names[j])

\* C3: when no flattened Record's normalized name equals the normalized
\* query, query_name, get_url, get_path and fetch fail with a not-found error
\* whose message holds the query exactly as the caller wrote it.  In a batch
\* the error is that of the first such name, unless a download failed first.
C3_NotFoundQuotesQuery ==
    /\ (pc = "called" /\ op \in {"query_name", "get_url", "get_path"}
        /\ NoMatch(arg)) => IsNotFoundFor(ret, arg)
    /\ (pc = "called" /\ op = "fetch"
        /\ \E i \in 1..Len(FetchNames) : NoMatch(FetchNames[i])) =>
            \/ IsNotFoundFor(ret, FetchNames[FirstNoMatch(FetchNames)])
            \/ IsDownloadError(ret)

\* get_path failed on a query written with an upper-case letter and a space
C3_Witness ==
    /\ pc = "called" /\ op = "get_path"
    /\ arg = <<"A", " ", "b">>
    /\ NoMatch(arg)
    /\ IsNotFoundFor(ret, arg)

C3_WitnessBatch ==
    /\ pc = "called" /\ op = "fetch" /\ arg.t = "list" /\ Len(arg.v) = 2
    /\ ~NoMatch(arg.v[1]) /\ NoMatch(arg.v[2])
    /\ IsNotFoundFor(ret, arg.v[2])

Resolves == SelectSeq(log, LAMBDA e : e.ev = "resolve")

Valid(f) == HasKey(registry, f) /\ cache[f] = Get(registry, f)

EnsuredCached(q) == ~NoMatch(q) /\ Valid(FileOf(q))

\* C4: fetch over a sequence of names resolves them strictly in order, each
\* download right after the resolution of its name; when the name at
\* position k is the first whose resolution or download fails, the failure
\* is raised, every name before k is cached, and no name after k is
\* resolved or downloaded; without a failure every name is cached.
C4_FetchInOrderFailFast ==
    (pc = "called" /\ op = "fetch") =>
        LET names == FetchNames
            k == Len(Resolves)
        IN  /\ k <= Len(names)
            /\ \A j \in 1..k : Resolves[j].what = names[j]
            /\ \A p \in 1..Len(log) :
                  log[p].ev = "download" =>
                      /\ p > 1
                      /\ log[p - 1] = Resolve(log[p - 1].what)
                      /\ ~NoMatch(log[p - 1].what)
                      /\ log[p].what = FileOf(log[p - 1].what)
            /\ Returned(ret) =>
                  k = Len(names) /\ \A j \in 1..k : EnsuredCached(names[j])
            /\ Raised(ret) =>
                  /\ k >= 1
                  /\ \A j \in 1..(k - 1) : EnsuredCached(names[j])
                  /\ ~EnsuredCached(names[k])
                  /\ log[Len(log)].what \in
                        {names[k]} \cup (IF NoMatch(names[k]) THEN {}
                                         ELSE {FileOf(names[k])})

\* a batch of two: the first name was downloaded, the second failed
C4_Witness ==
    /\ pc = "called" /\ op = "fetch" /\ arg.t = "list" /\ Len(arg.v) = 2
    /\ Raised(ret)
    /\ Len(Resolves) = 2
    /\ \E p \in 1..Len(log) : log[p].ev = "download"
    /\ EnsuredCached(arg.v[1])

\* a batch of two whose first name fails: the second is not looked at
C4_WitnessFirstFails ==
    /\ pc = "called" /\ op = "fetch" /\ arg.t = "list" /\ Len(arg.v) = 2
    /\ Raised(ret)
    /\ Len(Resolves) = 1
    /\ ~NoMatch(arg.v[2])

IsExtractedMember(path, ds) ==
    \E i \in 1..Len(Attr(ds, "members")) :
        path = FullPath(Attr(ds, "filename")) \o UnzipSuffix
               \o Attr(ds, "members")[i]

\* C5 as stated: for a Record that declares members, get_path(query) ensures
\* the archive is extracted and returns the path of the single extracted
\* file or, of several, of the first one that ends in .shp.
C5_GetPathReturnsMember ==
    (pc = "called" /\ op = "get_path" /\ Returned(ret)
     /\ HasAttr(Resolved(arg), "members")) =>
        /\ FileOf(arg) \in unzipped
        /\ IsExtractedMember(ret.val, Resolved(arg))
        /\ Len(Attr(Resolved(arg), "members")) > 1 =>
              EndsWith(ret.val, ShpSuffix)

\* C6: a get_path whose query resolves to a Record with a present and valid
\* cached file returns the path of that file and downloads nothing; a
\* get_path or fetch that succeeded leaves the file of every name present and
\* valid, and it stays so until the file is removed from the cache directory.
C6_NoSecondDownload ==
    [][ /\ (pc = "idle" /\ op' = "get_path" /\ ~NoMatch(arg')
            /\ Valid(FileOf(arg'))) =>
               /\ ret' = Return(FullPath(FileOf(arg')))
               /\ log' = <<Resolve(arg')>>
               /\ cache' = cache
        /\ (pc = "idle" /\ op' = "get_path" /\ Returned(ret')) =>
               /\ cache'[FileOf(arg')] = Get(registry, FileOf(arg'))
               /\ ret' = Return(FullPath(FileOf(arg')))
        /\ (pc = "idle" /\ op' = "fetch" /\ Returned(ret')) =>
               LET names == IF arg'.t = "str" THEN <<arg'.v>> ELSE arg'.v
               IN  \A j \in 1..Len(names) :
                       cache'[FileOf(names[j])]
                           = Get(registry, FileOf(names[j]))
        /\ \A f \in Filenames :
               (Valid(f) /\ cache'[f] # cache[f]) =>
                   (pc = "idle" /\ pc' = "idle" /\ cache'[f] = Absent)
      ]_vars

\* get_path returned the path of a file that was in the cache already
C6_Witness ==
    /\ pc = "called" /\ op = "get_path"
    /\ Returned(ret)
    /\ ret.val = FullPath(FileOf(arg))
    /\ log = <<Resolve(arg)>>
    /\ arg = <<"A", " ", "b">>

(***************************************************************************)
(* Filter claims                                                           *)
(***************************************************************************)
CalledFilter == pc = "called" /\ op = "filter"

\* the Records of a flattened mapping
Records(flat) == {flat[i].value : i \in 1..Len(flat)}

\* the condition of the call, as the documentation of filter states it
KeywordHolds(r, keyword) ==
    \E k \in DOMAIN r.attrs :
        r.attrs[k].t = "str" /\ Contains(Lower(r.attrs[k].v), Lower(keyword))

NameHolds(r, name) == Contains(Lower(Attr(r, "name")), Lower(name))

GeometryTypeHolds(r, geometry_type) ==
    /\ HasAttr(r, "geometry_type")
    /\ Upper(Attr(r, "geometry_type"))
           = Upper(SelectSeq(geometry_type, IsLetterOrDigit))

Satisfies(r, a) ==
    IF a.function # "None"
    THEN (IF a.function = "small_data"
          THEN HasAttr(r, "nrows") /\ Attr(r, "nrows") < 100
          ELSE HasAttr(r, "members"))
    ELSE /\ a.keyword # PyNone => KeywordHolds(r, a.keyword)
         /\ a.name # PyNone => NameHolds(r, a.name)
         /\ a.geometry_type # PyNone => GeometryTypeHolds(r, a.geometry_type)

\* C7 as stated: the Records of filter(...).flatten() are a subset of the
\* Records of flatten(), each the identical Record with unchanged attributes,
\* never more of them, and a Record of flatten() survives if and only if it
\* satisfies the condition.
C7_FilterSubsetOfFlatten ==
    CalledFilter =>
        LET before == Records(flatten(data))
            after == IF Returned(ret) THEN Records(flatten(ret.val)) ELSE {}
        IN  /\ after \subseteq before
            /\ Cardinality(after) <= Cardinality(before)
            /\ \A r \in before : r \in after <=> Satisfies(r, arg)

\* C8 as stated: a Record of the tree is kept if and only if every supplied
\* sub-condition holds (all are kept when none is supplied), or, with a
\* custom function, if and only if the function returns true for it.
C8_KeptIffConditionHolds ==
    CalledFilter =>
        \A r \in Leaves(data) :
            (Returned(ret) /\ r \in Leaves(ret.val)) <=> Satisfies(r, arg)

\* C9 as stated: flatten and filter never fail on a tree whose leaves are
\* valid Records, whatever sub-conditions are supplied.
C9_NeverFails ==
    (pc = "called" /\ op \in {"flatten", "filter"}) => Returned(ret)

\* the nodes of a tree, each with the chain of keys that leads to it
RECURSIVE Nodes(_, _)
Nodes(item, path) ==
    {[path |-> path, kind |-> item.kind, id |-> item.id, attrs |-> item.attrs]}
    \cup UNION {Nodes(item.items[i].value, Append(path, item.items[i].key)) :
                   i \in 1..Len(item.items)}

RECURSIVE Groups(_)
Groups(item) ==
    IF IsDataset(item) THEN {}
    ELSE {item} \cup UNION {Groups(item.items[i].value) :
                               i \in 1..Len(item.items)}

\* C10: every Record and group of the filtered tree sits under the same key
\* and the same chain of group keys as in the original tree, and every group
\* below the root of the result holds at least one Record.
C10_ShapeKeptEmptyGroupsPruned ==
    (CalledFilter /\ Returned(ret)) =>
        /\ Nodes(ret.val, <<>>) \subseteq Nodes(data, <<>>)
        /\ \A g \in Groups(ret.val) \ {ret.val} :
              g.items # <<>> /\ Leaves(g) # {}

\* a Record two groups deep survived and another group was pruned
C10_Witness ==
    /\ CalledFilter /\ Returned(ret)
    /\ \E n \in Nodes(ret.val, <<>>) : n.kind = "Dataset" /\ Len(n.path) = 3
    /\ Cardinality(Groups(ret.val)) < Cardinality(Groups(data)) - 1
    /\ Cardinality(Leaves(ret.val)) = 1


(***************************************************************************)
(* Dataset construction and loading claims                                 *)
(***************************************************************************)
RequiredFields == {"name", "url", "hash", "filename"}

Absentees(d) == {f \in RequiredFields : \A k \in 1..Len(d) : d[k].key # f}

\* the field names a message lists after its fixed opening
Listed(msg) ==
    {msg[k] : k \in (Len(MissingPrefix) + 1)..Len(msg)} \cap RequiredFields

CalledOp(o) == pc = "called" /\ op = o

\* the definitions of single datasets inside a parsed definition: the
\* mappings that hold a value which is no mapping
RECURSIVE LeafDefinitions(_)
LeafDefinitions(d) ==
    IF \E k \in 1..Len(d) : d[k].value.t # "dict" THEN {d}
    ELSE UNION {LeafDefinitions(d[k].value.v) : k \in 1..Len(d)}

MissesHash(doc) ==
    \E l \in LeafDefinitions(doc) : Absentees(l) = {"hash"}

\* C11: Dataset(fields) returns a Dataset with the given attributes iff
\* name, url, hash and filename are all among the fields; otherwise it raises
\* the AttributeError whose message lists exactly the missing required
\* fields, all of them, and nothing is returned.  Loading a definition in
\* which a leaf lacks hash raises that error, with hash listed.
C11_MissingFieldsAllListed ==
    /\ CalledOp("Dataset") =>
          IF Absentees(arg) = {}
          THEN /\ Returned(ret)
               /\ IsDataset(ret.val)
               /\ DOMAIN ret.val.attrs = {arg[k].key : k \in 1..Len(arg)}
               /\ \A k \in 1..Len(arg) :
                     ret.val.attrs[arg[k].key] = arg[k].value
          ELSE /\ Raised(ret)
               /\ ret.val.exc = "AttributeError"
               /\ Listed(ret.val.msg) = Absentees(arg)
    /\ (CalledOp("_load_json") /\ MissesHash(arg)) =>
          /\ Raised(ret)
          /\ ret.val.exc = "AttributeError"
          /\ "hash" \in Listed(ret.val.msg)

\* a construction that lacks two required fields has been refused
C11_Witness ==
    /\ CalledOp("Dataset")
    /\ Absentees(arg) = {"url", "hash"}
    /\ Raised(ret)

\* a definition of one group whose second leaf lacks hash has been refused
C11_WitnessLoad ==
    /\ CalledOp("_load_json")
    /\ MissesHash(arg)
    /\ Len(arg) = 1
    /\ Raised(ret)
    /\ Listed(ret.val.msg) = {"hash"}

\* a construction with all required fields has returned a Dataset
C11_WitnessValid ==
    /\ CalledOp("Dataset")
    /\ Absentees(arg) = {}
    /\ Returned(ret)

TheObject(tree, i) == CHOOSE r \in Leaves(tree) : r.id = i

IsNewObject(r) == IsDataset(r) /\ \A l \in Leaves(data) : l.id # r.id

ReceiverUnchanged == TheObject(data, arg.self.id).attrs = arg.self.attrs

\* C12: calling a Dataset with keyword changes returns a new object whose
\* attributes are the receiver's, each changed key holding the changed
\* value, and the receiver keeps its attributes; copy() returns a new
\* object with attributes equal to the receiver's, which keeps its own.
C12_CallOverwritesCopyEquals ==
    /\ CalledOp("__call__") =>
          /\ Returned(ret)
          /\ IsNewObject(ret.val)
          /\ DOMAIN ret.val.attrs =
                DOMAIN arg.self.attrs
                \cup {arg.kwargs[j].key : j \in 1..Len(arg.kwargs)}
          /\ \A j \in 1..Len(arg.kwargs) :
                ret.val.attrs[arg.kwargs[j].key] = arg.kwargs[j].value
          /\ \A k \in DOMAIN arg.self.attrs :
                (\A j \in 1..Len(arg.kwargs) : arg.kwargs[j].key # k)
                    => ret.val.attrs[k] = arg.self.attrs[k]
          /\ ReceiverUnchanged
    /\ CalledOp("copy") =>
          /\ Returned(ret)
          /\ IsNewObject(ret.val)
          /\ ret.val.attrs = arg.self.attrs
          /\ ReceiverUnchanged

\* a call has overwritten hash, a key of the receiver, and added nrows, a key
\* the receiver did not have
C12_Witness ==
    /\ CalledOp("__call__")
    /\ Len(arg.kwargs) = 2
    /\ "nrows" \notin DOMAIN arg.self.attrs
    /\ Returned(ret)
    /\ ret.val.attrs["hash"] # arg.self.attrs["hash"]
    /\ "nrows" \in DOMAIN ret.val.attrs

\* a copy has been returned
C12_WitnessCopy ==
    /\ CalledOp("copy")
    /\ arg.kwargs = <<>>
    /\ Returned(ret)
    /\ ret.val.id # arg.self.id

IsLeafDefinition(d) == \E k \in 1..Len(d) : d[k].value.t # "dict"

AllLeavesValid(doc) == \A l \in LeafDefinitions(doc) : Absentees(l) = {}

\* a group of the definition holds a group
GroupInGroup(doc) ==
    \E k \in 1..Len(doc) :
        /\ ~IsLeafDefinition(doc[k].value.v)
        /\ \E j \in 1..Len(doc[k].value.v) :
              ~IsLeafDefinition(doc[k].value.v[j].value.v)

\* the tree has a group for each group of the definition and a Dataset for
\* each leaf definition, under the same keys in the same order
RECURSIVE SameShape(_, _)
SameShape(tree, d) ==
    IF IsLeafDefinition(d)
    THEN /\ IsDataset(tree)
         /\ DOMAIN tree.attrs = {d[k].key : k \in 1..Len(d)}
         /\ \A k \in 1..Len(d) : tree.attrs[d[k].key] = d[k].value
    ELSE /\ ~IsDataset(tree)
         /\ Len(tree.items) = Len(d)
         /\ \A k \in 1..Len(d) :
               /\ tree.items[k].key = d[k].key
               /\ SameShape(tree.items[k].value, d[k].value.v)

\* C13 as stated: every definition whose leaves all hold the required
\* fields, groups nested two or more levels deep included, loads into a tree
\* of the same shape.
C13_LoadsEveryDepth ==
    (CalledOp("_load_json") /\ AllLeavesValid(arg)) =>
        /\ Returned(ret)
        /\ SameShape(ret.val, arg)

\* C13: the loader classifies each top-level entry once.  An entry with a
\* url key is constructed as a single Dataset (and refused with the list of
\* its missing fields if it lacks any); any other entry becomes a group whose
\* children are each constructed as a Dataset directly.  So a definition
\* with valid leaves and no group inside a group loads into a tree of the
\* same shape, and one with a group inside a group is refused with the
\* AttributeError of Dataset construction for that inner group.
C13_LoadsOneLevelOfGroups ==
    /\ (CalledOp("_load_json") /\ AllLeavesValid(arg)) =>
          IF GroupInGroup(arg)
          THEN /\ Raised(ret)
               /\ ret.val.exc = "AttributeError"
               /\ \E k \in 1..Len(arg) :
                     \E j \in 1..Len(arg[k].value.v) :
                         /\ ~IsLeafDefinition(arg[k].value.v)
                         /\ ~IsLeafDefinition(arg[k].value.v[j].value.v)
                         /\ Listed(ret.val.msg)
                               = Absentees(arg[k].value.v[j].value.v)
          ELSE /\ Returned(ret)
               /\ SameShape(ret.val, arg)
    /\ (CalledOp("_load_json") /\ HasKey(arg[1].value.v, "url")) =>
          IF Absentees(arg[1].value.v) = {}
          THEN Returned(ret) => SameShape(ret.val.items[1].value,
                                          arg[1].value.v)
          ELSE /\ Raised(ret)
               /\ ret.val.exc = "AttributeError"
               /\ Listed(ret.val.msg) = Absentees(arg[1].value.v)

\* a definition with valid leaves and a group inside a group has been refused
C13_Witness ==
    /\ CalledOp("_load_json")
    /\ AllLeavesValid(arg)
    /\ GroupInGroup(arg)
    /\ LeafDefinitions(arg) # {}
    /\ Raised(ret)

\* a definition with a top-level leaf and a group of one leaf has been loaded
C13_WitnessOneLevel ==
    /\ CalledOp("_load_json")
    /\ Len(arg) = 2
    /\ HasKey(arg[1].value.v, "url")
    /\ ~GroupInGroup(arg)
    /\ Returned(ret)
    /\ SameShape(ret.val, arg)

\* a top-level entry with a url key and no name has been refused as a Dataset
C13_WitnessClassified ==
    /\ CalledOp("_load_json")
    /\ HasKey(arg[1].value.v, "url")
    /\ Absentees(arg[1].value.v) = {"name"}
    /\ Raised(ret)

(***************************************************************************)
(* Flatten size, read-only catalog and registry claims                     *)
(***************************************************************************)
\* the leaves of a tree in the order of a depth-first visit
RECURSIVE LeafOrder(_)
LeafOrder(item) ==
    IF IsDataset(item) THEN <<item>>
    ELSE IF item.items = <<>> THEN <<>>
    ELSE LeafOrder(item.items[1].value)
         \o LeafOrder([item EXCEPT !.items = Tail(item.items)])

LeafNames(tree) == {Attr(l, "name") : l \in Leaves(tree)}

\* C14 as stated: flatten() has one entry per leaf Dataset, keyed by its
\* name: it holds every leaf and its size is the number of leaves.
C14_OneEntryPerLeaf ==
    CalledOp("flatten") =>
        /\ Returned(ret)
        /\ \A k \in 1..Len(ret.val) :
              ret.val[k].key = Attr(ret.val[k].value, "name")
        /\ Records(ret.val) = Leaves(data)
        /\ Len(ret.val) = Cardinality(Leaves(data))

\* C14: flatten() is keyed by name with one entry per distinct leaf name,
\* holding the leaf visited last among the leaves of that name; its size is
\* the number of distinct names, which is the number of leaves exactly when
\* no two leaves share a name.
C14_OneEntryPerName ==
    CalledOp("flatten") =>
        LET order == LeafOrder(data)
        IN  /\ Returned(ret)
            /\ Len(ret.val) = Cardinality(LeafNames(data))
            /\ {ret.val[k].key : k \in 1..Len(ret.val)} = LeafNames(data)
            /\ \A k \in 1..Len(ret.val) :
                  \E j \in 1..Len(order) :
                      /\ ret.val[k].value = order[j]
                      /\ ret.val[k].key = Attr(order[j], "name")
                      /\ \A i \in (j + 1)..Len(order) :
                            Attr(order[i], "name") # ret.val[k].key
            /\ (Cardinality(LeafNames(data)) = Len(order))
                  <=> (Len(ret.val) = Cardinality(Leaves(data)))

\* a tree with two leaves of one name has been flattened into one entry
C14_Witness ==
    /\ CalledOp("flatten")
    /\ Cardinality(Leaves(data)) = 2
    /\ Cardinality(LeafNames(data)) = 1
    /\ Len(ret.val) = 1

\* a tree of depth three with two names has been flattened into two entries
C14_WitnessDistinct ==
    /\ CalledOp("flatten")
    /\ data \in {Tree4(p[1], p[2]) : p \in {q \in Datasets \X Datasets : q[1] # q[2]}}
    /\ Len(ret.val) = 2

\* C15: no call of get_url, get_path, fetch, query_name, flatten, filter,
\* Dataset.path, copy or __call__ changes the catalog tree: groups, keys,
\* key order and every Dataset's attributes stay as loaded.
C15_CatalogReadOnly == [][data' = data]_vars

\* after an archive has been unpacked by an earlier call, a call with
\* keyword changes has returned and the receiver in the catalog is as before
C15_Witness ==
    /\ CalledOp("__call__")
    /\ Len(arg.kwargs) > 0
    /\ unzipped # {}
    /\ Returned(ret)
    /\ TheObject(data, arg.self.id) = arg.self

\* a filter call has returned a tree smaller than the catalog
C15_WitnessFilter ==
    /\ CalledOp("filter")
    /\ Returned(ret)
    /\ Leaves(ret.val) # Leaves(data)

NoSharedFilename ==
    \A r \in Records(flatten(data)), s \in Records(flatten(data)) :
        r # s => Attr(r, "filename") # Attr(s, "filename")

\* the mapping holds the key once, with this value
MapsTo(d, k, v) ==
    /\ \E i \in 1..Len(d) : d[i].key = k /\ d[i].value = v
    /\ \A i \in 1..Len(d), j \in 1..Len(d) : d[i].key = d[j].key => i = j

Downloads == SelectSeq(log, LAMBDA e : e.ev = "download")

\* C16: as long as no two Datasets of the flattened catalog share a
\* filename, the registry and the url table are keyed by filename and map
\* each Dataset's filename to its own hash and its own url, and every
\* download of a get_path or fetch call is the download of the file of a
\* Dataset a queried name resolves to, from that Dataset's url and checked
\* against that Dataset's hash.  When two Datasets with different hashes
\* share a filename, the registry holds the hash of only one of them.
C16_RegistryConsistent ==
    /\ NoSharedFilename =>
          /\ \A r \in Records(flatten(data)) :
                /\ MapsTo(registry, Attr(r, "filename"), Attr(r, "hash"))
                /\ MapsTo(urls, Attr(r, "filename"), Attr(r, "url"))
          /\ \A i \in 1..Len(registry) :
                \E r \in Records(flatten(data)) :
                    registry[i].key = Attr(r, "filename")
          /\ (pc = "called" /\ op \in {"get_path", "fetch"}) =>
                \A k \in 1..Len(Downloads) :
                    \E j \in 1..Len(IF op = "fetch" THEN FetchNames
                                    ELSE <<arg>>) :
                        LET q == IF op = "fetch" THEN FetchNames[j] ELSE arg
                        IN  /\ ~NoMatch(q)
                            /\ Downloads[k].what = Attr(Resolved(q), "filename")
                            /\ Downloads[k].url = Attr(Resolved(q), "url")
                            /\ Downloads[k].hash = Attr(Resolved(q), "hash")
    /\ (\E r \in Records(flatten(data)), s \in Records(flatten(data)) :
            /\ Attr(r, "filename") = Attr(s, "filename")
            /\ Attr(r, "hash") # Attr(s, "hash")) =>
          \E r \in Records(flatten(data)) :
              ~MapsTo(registry, Attr(r, "filename"), Attr(r, "hash"))

\* with distinct filenames in the catalog, a fetch of two names has
\* downloaded two files
C16_Witness ==
    /\ NoSharedFilename
    /\ pc = "called" /\ op = "fetch"
    /\ Returned(ret)
    /\ Len(Downloads) = 2
    /\ Downloads[1].what # Downloads[2].what

\* two Datasets of the catalog share a filename, and get_path for the name
\* of one has downloaded against the hash of the other
C16_WitnessShared ==
    /\ ~NoSharedFilename
    /\ pc = "called" /\ op = "get_path"
    /\ ~NoMatch(arg)
    /\ Len(Downloads) = 1
    /\ Downloads[1].hash # Attr(Resolved(arg), "hash")
====
